---- MODULE Spec2Model ----
(***************************************************************************)
(* Model of video_factory/src/llm_engine.py: the rate-limited, cached      *)
(* request engine (ResponseCache, RateLimiter, LLMEngine.generate_script). *)
(*                                                                         *)
(* Time.  The clock (time.time()) is read in whole seconds and every event *)
(* happens at a whole-second instant, so time.sleep(w) returns at the      *)
(* first instant >= start + w or later.  The calendar day                 *)
(* (time.strftime("%Y-%m-%d")) is a counter that midnight increments; the  *)
(* position of midnight relative to the start of the run is not fixed.     *)
(*                                                                         *)
(* Floats.  request_tokens and token_tokens hold Minute times the value of *)
(* the Python floats, which makes the refill (limit / 60.0) * elapsed an   *)
(* integer: limit * elapsed.  Floating-point rounding is not modelled.     *)
(***************************************************************************)
EXTENDS Integers, Sequences, FiniteSets, TLC

\* ---------------------------------------------------------------- bounds
NumCallers == 3
NumEngineCallers == 2
MaxTime == 60
MaxDay == 1
MaxPromptLen == 4
MaxPromptChars == 5

\* ------------------------------------------------------ program constants
Minute == 60

\* -------------------------------------------------------------- helpers
Max2(a, b) == IF a >= b THEN a ELSE b
Min2(a, b) == IF a <= b THEN a ELSE b
CeilDiv(a, b) == (a + b - 1) \div b

Callers == 1..NumCallers
EngineCallers == 1..NumEngineCallers
Deltas == {30}

Prompts == {<<"a">>, <<"a", "a", "a", "a", "a", "a", "a", "a">>}

\* Python slice bound: a negative index counts from the end
PyIndex(i, n) == IF i < 0 THEN Max2(0, n + i) ELSE Min2(i, n)

Marker == <<"\n", ".", ".", ".", "\n">>

\* LLMEngine._prepare_prompt
PreparePrompt(p, max_chars) ==
  IF Len(p) <= max_chars THEN p
  ELSE LET head == SubSeq(p, 1, PyIndex(max_chars \div 2, Len(p)))
           tail == SubSeq(p, PyIndex((-max_chars) \div 2, Len(p)) + 1, Len(p))
       IN  head \o Marker \o tail

\* LLMEngine._cache_key: model, max_tokens and temperature are fixed for one
\* engine, and the digest is taken to be free of collisions
CacheKey(prepared_prompt) == prepared_prompt

\* str.strip()
IsSpace(ch) == ch \in {" ", "\n"}

RECURSIVE LStrip(_)
LStrip(text) ==
  IF text # <<>> /\ IsSpace(Head(text)) THEN LStrip(Tail(text)) ELSE text

RECURSIVE RStrip(_)
RStrip(text) ==
  IF text # <<>> /\ IsSpace(text[Len(text)])
  THEN RStrip(SubSeq(text, 1, Len(text) - 1)) ELSE text

Strip(text) == RStrip(LStrip(text))

\* texts the remote call returns
Texts == {<<"a", " ">>, <<" ">>}

Keys == {CacheKey(PreparePrompt(p, 2000)) : p \in Prompts}
Values == {Strip(text) : text \in Texts}

\* configuration values read from the environment (before clamping)
RpmChoices == {0, 1, 2}
TpmChoices == {2, 3}
RpdChoices == {0, 1}
ConcurrencyChoices == {1, 2}
MaxTokensChoices == {-3, 0, 1}

VARIABLES
  \* configuration
  rpm_limit, tpm_limit, rpd_limit, concurrency, max_tokens,
  \* clock
  now, today,
  \* RateLimiter
  request_tokens, token_tokens, last_refill, day, daily_requests, semaphore,
  \* ResponseCache
  cache_ttl, cache,
  \* LLMEngine
  max_retries, max_prompt_chars,
  \* callers
  pc, est, wakeAt, err, prompt, attempt, result,
  \* history
  admissions, calls, outcome, storedAt,
  \* history of the direct cache operations
  lastPut, lastGet,
  \* one application of _prepare_prompt: its argument and its result
  raw_prompt, prepared_prompt,
  \* the cache file: its path (or none), its content, the state of the
  \* construction and the outcome of the last write
  disk_path, disk, engine, lastWrite,
  \* the callers inside ResponseCache._lock and inside RateLimiter._lock
  cache_lock, limiter_lock

confVars == <<rpm_limit, tpm_limit, rpd_limit, concurrency, max_tokens,
              cache_ttl, max_retries, max_prompt_chars>>
clockVars == <<now, today>>
limVars == <<request_tokens, token_tokens, last_refill, day, daily_requests>>
callerVars == <<pc, est, wakeAt, err>>
engVars == <<prompt, attempt, result, calls, outcome, storedAt>>
cacheHist == <<lastPut, lastGet>>
promptVars == <<raw_prompt, prepared_prompt>>
diskVars == <<disk_path, disk, engine, lastWrite>>
lockVars == <<cache_lock, limiter_lock>>
vars == <<confVars, clockVars, limVars, semaphore, cache, callerVars, engVars, admissions,
          cacheHist, promptVars, diskVars, lockVars>>

\* _estimate_tokens(text, max_output_tokens)
EstimateTokens(text, max_output_tokens) ==
  Max2(1, Len(text) \div 4) + max_output_tokens

\* RateLimiter.__init__(rpm_limit, tpm_limit, rpd_limit, concurrency_limit)
InitLimiter(rpm, tpm, rpd, k) ==
  /\ rpm_limit = Max2(1, rpm)
  /\ tpm_limit = Max2(1, tpm)
  /\ rpd_limit = Max2(0, rpd)
  /\ concurrency = Max2(1, k)
  /\ request_tokens = Minute * rpm_limit
  /\ token_tokens = Minute * tpm_limit
  /\ last_refill = now
  /\ semaphore = concurrency
  /\ day = today
  /\ daily_requests = 0

InitClock ==
  /\ now = 0
  /\ today = 0

\* ResponseCache.__init__(ttl_seconds, disk_path = None)
NoEntries == [k \in {} |-> [expires_at |-> 0, value |-> <<>>]]

\* JSON documents: every value carries its type, its number, its string and
\* its members (the members of an object are indexed by their names)
NoMembers == [n \in {} |-> 0]
JNull == [type |-> "null", num |-> 0, str |-> <<>>, members |-> NoMembers]
JNumber(n) == [type |-> "number", num |-> n, str |-> <<>>, members |-> NoMembers]
JString(text) == [type |-> "string", num |-> 0, str |-> text, members |-> NoMembers]
JArray == [type |-> "array", num |-> 0, str |-> <<>>, members |-> NoMembers]
JObject(m) == [type |-> "object", num |-> 0, str |-> <<>>, members |-> m]

\* the cache file: absent, or present with a content that may be unreadable,
\* not UTF-8, not JSON, or the JSON document doc
MissingFile ==
  [exists |-> FALSE, readable |-> FALSE, utf8 |-> FALSE, json |-> FALSE, doc |-> JNull]
UnreadableFile ==
  [exists |-> TRUE, readable |-> FALSE, utf8 |-> FALSE, json |-> FALSE, doc |-> JNull]
BinaryFile ==
  [exists |-> TRUE, readable |-> TRUE, utf8 |-> FALSE, json |-> FALSE, doc |-> JNull]
\* an empty file and a file of text that is not JSON: json.loads rejects both
EmptyFile ==
  [exists |-> TRUE, readable |-> TRUE, utf8 |-> TRUE, json |-> FALSE, doc |-> JNull]
JsonFile(d) ==
  [exists |-> TRUE, readable |-> TRUE, utf8 |-> TRUE, json |-> TRUE, doc |-> d]

\* ResponseCache._persist, lines 69-72: json.dumps of the whole map
Dump(ch) ==
  JsonFile(JObject([k \in DOMAIN ch |->
    JObject([n \in {"expires_at", "value"} |->
      IF n = "expires_at" THEN JNumber(ch[k].expires_at) ELSE JString(ch[k].value)])]))

\* ResponseCache._load_disk_cache, lines 55-64: the exception the body raises
\* on the file f, "none" when it raises nothing
EntryRaises(entry) ==
  IF entry.type # "object" THEN "AttributeError"
  ELSE IF "expires_at" \in DOMAIN entry.members
          /\ entry.members["expires_at"].type # "number"
  THEN "TypeError"
  ELSE "none"

LoadRaises(f) ==
  IF ~f.exists THEN "none"
  ELSE IF ~f.readable THEN "OSError"
  ELSE IF ~f.utf8 THEN "UnicodeDecodeError"
  ELSE IF ~f.json THEN "JSONDecodeError"
  ELSE IF f.doc.type # "object" THEN "AttributeError"
  ELSE IF \E k \in DOMAIN f.doc.members : EntryRaises(f.doc.members[k]) = "AttributeError"
  THEN "AttributeError"
  ELSE IF \E k \in DOMAIN f.doc.members : EntryRaises(f.doc.members[k]) = "TypeError"
  THEN "TypeError"
  ELSE "none"

\* line 57: except (OSError, json.JSONDecodeError)
LoadCaught(exc) == exc \in {"OSError", "JSONDecodeError"}

\* entry.get("expires_at", 0.0) and entry.get("value", "")
EntryExpiresAt(entry) ==
  IF "expires_at" \in DOMAIN entry.members THEN entry.members["expires_at"].num ELSE 0
EntryValue(entry) ==
  IF "value" \in DOMAIN entry.members THEN entry.members["value"].str ELSE <<>>

LoadKeptMutant(expires_at, t) == expires_at >= t

\* line 63: if expires_at > now
LoadKept(expires_at, t) == expires_at > t

\* lines 61-64: the map a load at the instant t builds from the file f
LoadedEntries(f, t) ==
  IF ~f.exists \/ LoadRaises(f) # "none" THEN NoEntries
  ELSE [k \in {x \in DOMAIN f.doc.members :
                LoadKept(EntryExpiresAt(f.doc.members[x]), t)} |->
          [expires_at |-> EntryExpiresAt(f.doc.members[k]),
           value |-> EntryValue(f.doc.members[k])]]

\* disk_path is None
NoPath == ""

\* ResponseCache._persist, lines 72-74: the outcomes of mkdir and write_text
\* and the except clause
WriteOutcomes == {"ok", "OSError"}

PersistCaughtMutant(exc) == FALSE

PersistCaught(exc) == exc = "OSError"

PersistRaises(w) == w \notin {"none", "ok"} /\ ~PersistCaught(w)

\* the outcomes of one call of _persist; "none" when nothing is written
PersistOutcomes(called) ==
  IF called /\ disk_path # NoPath THEN WriteOutcomes ELSE {"none"}

\* the file a call of _persist with outcome w leaves, ch the map in memory: a
\* failed write leaves the old file or a truncated one
DiskAfterPersist(w, ch) ==
  IF w = "none" THEN {disk}
  ELSE IF w = "ok" THEN {Dump(ch)}
  ELSE {disk, EmptyFile}

InitCache(ttl) ==
  /\ cache_ttl = ttl
  /\ cache = NoEntries
  /\ disk_path = NoPath
  /\ disk = MissingFile
  /\ engine = "up"
  /\ lastWrite = "none"

\* Optional[str]
None == [some |-> FALSE, value |-> <<>>]
Some(v) == [some |-> TRUE, value |-> v]

\* lastGet: the last lookup made since the last put; lastPut: the last put of a key
NoLookup == [key |-> <<>>, t |-> -1, value |-> None]

InitCallers ==
  /\ pc = [c \in Callers |-> "idle"]
  /\ est = [c \in Callers |-> 0]
  /\ wakeAt = [c \in Callers |-> 0]
  /\ err = [c \in Callers |-> "none"]
  /\ prompt = [c \in Callers |-> <<>>]
  /\ attempt = [c \in Callers |-> 0]
  /\ result = [c \in Callers |-> None]
  /\ calls = [c \in Callers |-> 0]
  /\ outcome = [c \in Callers |-> "none"]
  /\ storedAt = [c \in Callers |-> -1]
  /\ admissions = <<>>
  /\ lastPut = [k \in Keys |-> [t |-> -1, value |-> <<>>]]
  /\ lastGet = NoLookup
  /\ raw_prompt = <<>>
  /\ prepared_prompt = None
  /\ cache_lock = {}
  /\ limiter_lock = {}

\* "with self._lock:": the caller enters when the lock is free, or holds it
\* already because it took it in an earlier step
LockFreeFor(lock, c) == lock \subseteq {c}

LockReleasedMutant(lock, c) == lock

\* the end of the with block releases the lock
LockReleased(lock, c) == lock \ {c}

\* RateLimiter._refill: the bucket values after a refill at the instant t
RefillRequests(t) ==
  IF t - last_refill <= 0 THEN request_tokens
  ELSE Min2(Minute * rpm_limit, request_tokens + rpm_limit * (t - last_refill))

RefillTokens(t) ==
  IF t - last_refill <= 0 THEN token_tokens
  ELSE Min2(Minute * tpm_limit, token_tokens + tpm_limit * (t - last_refill))

RefillLast(t) == IF t - last_refill <= 0 THEN last_refill ELSE t

DailyAfterResetMutant == daily_requests

\* RateLimiter._check_daily_reset: the daily counter after the check
DailyAfterReset == IF today # day THEN 0 ELSE daily_requests

\* the clock advances within a calendar day
Tick(d) ==
  /\ now + d <= MaxTime
  /\ now' = now + d
  /\ UNCHANGED <<lockVars, diskVars, promptVars, cacheHist, today, cache, engVars, confVars, limVars, semaphore, callerVars, admissions>>

\* the clock advances across midnight
Midnight(d) ==
  /\ now + d <= MaxTime
  /\ today < MaxDay
  /\ now' = now + d
  /\ today' = today + 1
  /\ UNCHANGED <<lockVars, diskVars, promptVars, cacheHist, cache, engVars, confVars, limVars, semaphore, callerVars, admissions>>

\* callers are numbered in the order in which they arrive
Arrived(c) == IF c \in Callers THEN pc[c] # "idle" ELSE TRUE

\* a caller of the limiter enters acquire(tokens_needed)
LimiterCall(c, tokens_needed) ==
  /\ pc[c] = "idle"
  /\ Arrived(c - 1)
  /\ pc' = [pc EXCEPT ![c] = "acquire"]
  /\ est' = [est EXCEPT ![c] = tokens_needed]
  /\ UNCHANGED <<lockVars, diskVars, promptVars, cacheHist, cache, engVars, confVars, clockVars, limVars, semaphore, wakeAt, err, admissions>>

AcquireRejectMutant(c) ==
  /\ pc[c] = "acquire"
  /\ est[c] > tpm_limit
  /\ semaphore > 0
  /\ semaphore' = semaphore - 1
  /\ pc' = [pc EXCEPT ![c] = "failed"]
  /\ err' = [err EXCEPT ![c] = "unsatisfiable"]
  /\ UNCHANGED <<lockVars, diskVars, promptVars, cacheHist, cache, engVars, confVars, clockVars, limVars, est, wakeAt,
                 admissions>>

\* RateLimiter.acquire, lines 125-129: the unit check and the semaphore
AcquireReject(c) ==
  /\ pc[c] = "acquire"
  /\ est[c] > tpm_limit
  /\ pc' = [pc EXCEPT ![c] = "failed"]
  /\ err' = [err EXCEPT ![c] = "unsatisfiable"]
  /\ UNCHANGED <<lockVars, diskVars, promptVars, cacheHist, cache, engVars, confVars, clockVars, limVars, semaphore, est, wakeAt, admissions>>

SemaphoreFreeMutant(s) == TRUE

SemaphoreFree(s) == s > 0

AcquireSlot(c) ==
  /\ pc[c] = "acquire"
  /\ ~(est[c] > tpm_limit)
  /\ SemaphoreFree(semaphore)
  /\ semaphore' = semaphore - 1
  /\ pc' = [pc EXCEPT ![c] = "quota"]
  /\ UNCHANGED <<lockVars, diskVars, promptVars, cacheHist, cache, engVars, confVars, clockVars, limVars, est, wakeAt, err, admissions>>

QuotaDailyMutant(c) ==
  /\ pc[c] = "quota"
  /\ (rpd_limit # 0 /\ DailyAfterReset >= rpd_limit)
  /\ day' = today
  /\ daily_requests' = DailyAfterReset
  /\ pc' = [pc EXCEPT ![c] = "failed"]
  /\ err' = [err EXCEPT ![c] = "daily"]
  /\ UNCHANGED <<lockVars, diskVars, promptVars, cacheHist, cache, engVars, confVars, clockVars, request_tokens,
                 token_tokens, last_refill, semaphore, est, wakeAt, admissions>>

\* RateLimiter.acquire, lines 132-135: the daily cap raises inside the lock;
\* the finally clause releases the semaphore
DailyCapReached(limit, count) == limit # 0 /\ count >= limit

QuotaDaily(c) ==
  /\ pc[c] = "quota"
  /\ LockFreeFor(limiter_lock, c)
  /\ limiter_lock' = LockReleased(limiter_lock, c)
  /\ DailyCapReached(rpd_limit, DailyAfterReset)
  /\ day' = today
  /\ daily_requests' = DailyAfterReset
  /\ semaphore' = semaphore + 1
  /\ pc' = [pc EXCEPT ![c] = "failed"]
  /\ err' = [err EXCEPT ![c] = "daily"]
  /\ UNCHANGED <<cache_lock, diskVars, promptVars, cacheHist, cache, engVars, confVars, clockVars, request_tokens, token_tokens, last_refill,
                 est, wakeAt, admissions>>

\* RateLimiter.acquire, lines 136-141: refill, then debit both buckets
SufficientMutant(rt, tt, needed) == rt > 0 /\ tt >= Minute * needed

Sufficient(rt, tt, needed) == rt >= Minute /\ tt >= Minute * needed

QuotaAdmit(c) ==
  /\ pc[c] = "quota"
  /\ LockFreeFor(limiter_lock, c)
  /\ limiter_lock' = LockReleased(limiter_lock, c)
  /\ ~DailyCapReached(rpd_limit, DailyAfterReset)
  /\ Sufficient(RefillRequests(now), RefillTokens(now), est[c])
  /\ request_tokens' = RefillRequests(now) - Minute
  /\ token_tokens' = RefillTokens(now) - Minute * est[c]
  /\ last_refill' = RefillLast(now)
  /\ day' = today
  /\ daily_requests' = DailyAfterReset + 1
  /\ admissions' = Append(admissions, [t |-> now, units |-> est[c], day |-> today])
  /\ pc' = [pc EXCEPT ![c] = "admitted"]
  /\ UNCHANGED <<cache_lock, diskVars, promptVars, cacheHist, cache, engVars, confVars, clockVars, semaphore, est, wakeAt, err>>

\* RateLimiter.acquire, lines 142-148: the wait for the deficient bucket
WaitTime(rt, tt, needed) ==
  LET deficit_requests == Max2(0, Minute - rt)
      deficit_tokens == Max2(0, Minute * needed - tt)
      wait_request == CeilDiv(deficit_requests, rpm_limit)
      wait_tokens == CeilDiv(deficit_tokens, tpm_limit)
  IN  Max2(Max2(wait_request, wait_tokens), 1)

QuotaWaitMutant(c) ==
  /\ pc[c] = "quota"
  /\ ~DailyCapReached(rpd_limit, DailyAfterReset)
  /\ ~Sufficient(RefillRequests(now), RefillTokens(now), est[c])
  /\ request_tokens' = IF RefillRequests(now) >= Minute
                        THEN RefillRequests(now) - Minute ELSE RefillRequests(now)
  /\ token_tokens' = RefillTokens(now)
  /\ last_refill' = RefillLast(now)
  /\ day' = today
  /\ daily_requests' = DailyAfterReset
  /\ wakeAt' = [wakeAt EXCEPT ![c] =
                  now + WaitTime(RefillRequests(now), RefillTokens(now), est[c])]
  /\ pc' = [pc EXCEPT ![c] = "qsleep"]
  /\ UNCHANGED <<lockVars, diskVars, promptVars, cacheHist, cache, engVars, confVars, clockVars, semaphore, est, err, admissions>>

QuotaWait(c) ==
  /\ pc[c] = "quota"
  /\ LockFreeFor(limiter_lock, c)
  /\ limiter_lock' = LockReleased(limiter_lock, c)
  /\ ~DailyCapReached(rpd_limit, DailyAfterReset)
  /\ ~Sufficient(RefillRequests(now), RefillTokens(now), est[c])
  /\ request_tokens' = RefillRequests(now)
  /\ token_tokens' = RefillTokens(now)
  /\ last_refill' = RefillLast(now)
  /\ day' = today
  /\ daily_requests' = DailyAfterReset
  /\ wakeAt' = [wakeAt EXCEPT ![c] =
                  now + WaitTime(RefillRequests(now), RefillTokens(now), est[c])]
  /\ pc' = [pc EXCEPT ![c] = "qsleep"]
  /\ UNCHANGED <<cache_lock, diskVars, promptVars, cacheHist, cache, engVars, confVars, clockVars, semaphore, est, err, admissions>>

QuotaWake(c) ==
  /\ pc[c] = "qsleep"
  /\ now >= wakeAt[c]
  /\ wakeAt' = [wakeAt EXCEPT ![c] = 0]
  /\ pc' = [pc EXCEPT ![c] = "quota"]
  /\ UNCHANGED <<lockVars, diskVars, promptVars, cacheHist, cache, engVars, confVars, clockVars, limVars, semaphore, est, err, admissions>>

\* RateLimiter.acquire, lines 149-151: the body of the with statement ends
Release(c) ==
  /\ pc[c] = "admitted"
  /\ semaphore' = semaphore + 1
  /\ pc' = [pc EXCEPT ![c] = "done"]
  /\ UNCHANGED <<lockVars, diskVars, promptVars, cacheHist, cache, engVars, confVars, clockVars, limVars, est, wakeAt, err, admissions>>

\* ------------------------------------------------- the limiter on its own
InitL ==
  /\ InitClock
  /\ \E m \in MaxTokensChoices : max_tokens = m
  /\ \E r \in RpmChoices, t \in TpmChoices, d \in RpdChoices, k \in ConcurrencyChoices :
       InitLimiter(r, t, d, k)
  /\ InitCache(3600)
  /\ max_retries = 0
  /\ max_prompt_chars = 2000
  /\ InitCallers

NextL ==
  \/ \E d \in Deltas : Tick(d)
  \/ \E d \in Deltas : Midnight(d)
  \/ \E c \in Callers : \E p \in Prompts : LimiterCall(c, EstimateTokens(p, max_tokens))
  \/ \E c \in Callers : AcquireReject(c)
  \/ \E c \in Callers : AcquireSlot(c)
  \/ \E c \in Callers : QuotaDaily(c)
  \/ \E c \in Callers : QuotaAdmit(c)
  \/ \E c \in Callers : QuotaWait(c)
  \/ \E c \in Callers : QuotaWake(c)
  \/ \E c \in Callers : Release(c)

SpecLimiter == InitL /\ [][NextL]_vars

\* ============================================================ ResponseCache
CacheExpiredMutant(expires_at, t) == expires_at < t

\* ResponseCache.get(key) at the instant t: the value returned
CacheExpired(expires_at, t) == expires_at <= t

CacheGet(key, t) ==
  IF key \notin DOMAIN cache THEN None
  ELSE IF CacheExpired(cache[key].expires_at, t) THEN None
  ELSE Some(cache[key].value)

CacheAfterGetMutant(key, t) ==
  IF key \in DOMAIN cache
  THEN [k \in DOMAIN cache \ {key} |-> cache[k]]
  ELSE cache

\* ResponseCache.get(key) at the instant t: the map it leaves (lazy eviction)
CacheAfterGet(key, t) ==
  IF key \in DOMAIN cache /\ CacheExpired(cache[key].expires_at, t)
  THEN [k \in DOMAIN cache \ {key} |-> cache[k]]
  ELSE cache

\* ResponseCache.get(key), lines 80-83: the eviction is followed by _persist
GetPersists(key, t) == key \in DOMAIN cache /\ CacheExpired(cache[key].expires_at, t)

CacheSetMutant(key, value, t) ==
  [k \in DOMAIN cache \cup {key} |->
     IF k \in DOMAIN cache THEN cache[k]
     ELSE [expires_at |-> t + cache_ttl, value |-> value]]

\* ResponseCache.set(key, value) at the instant t: the map it leaves
CacheSet(key, value, t) ==
  [k \in DOMAIN cache \cup {key} |->
     IF k = key THEN [expires_at |-> t + cache_ttl, value |-> value] ELSE cache[k]]

\* ================================================================ LLMEngine
\* truth value of an Optional[str]: "if cached:"
Truthy(opt) == opt.some /\ opt.value # <<>>

\* Retry-After header of a throttling response
NoHeader == [present |-> FALSE, text |-> <<>>]
Header(text) == [present |-> TRUE, text |-> text]
RetryAfterChoices == {NoHeader, Header(<<"2">>), Header(<<"x">>)}

Digits == {"0", "1", "2", "3", "4", "5", "6", "7", "8", "9"}
DigitValue(ch) ==
  CASE ch = "0" -> 0 [] ch = "1" -> 1 [] ch = "2" -> 2 [] ch = "3" -> 3
    [] ch = "4" -> 4 [] ch = "5" -> 5 [] ch = "6" -> 6 [] ch = "7" -> 7
    [] ch = "8" -> 8 [] ch = "9" -> 9

\* float(retry_after) succeeds on the decimal numerals modelled here
IsNumeral(text) == text # <<>> /\ \A i \in 1..Len(text) : text[i] \in Digits

RECURSIVE ParseNumeral(_)
ParseNumeral(text) ==
  IF text = <<>> THEN 0
  ELSE 10 * ParseNumeral(SubSeq(text, 1, Len(text) - 1)) + DigitValue(text[Len(text)])

\* "if retry_after:" is false for a missing and for an empty header
HasHint(h) == h.present /\ h.text # <<>>

RECURSIVE Pow2(_)
Pow2(n) == IF n <= 0 THEN 1 ELSE 2 * Pow2(n - 1)

\* 2 * base, base = 0.5 * (2 ** (attempt - 1)), for attempt >= 1
BackoffBase2(a) == Pow2(a - 1)

\* random.uniform(0, base), in half seconds: the two ends and the middle
Jitters(a) == {0, BackoffBase2(a) \div 2, BackoffBase2(a)}

\* the wait before the next attempt, in half seconds
RetryWait2(h, a, jitter) ==
  IF HasHint(h) THEN 2 * ParseNumeral(h.text) ELSE BackoffBase2(a) + jitter

\* generate_script, lines 208-213: the cache holds a usable value
GenerateHit(c, p) ==
  LET prepared == PreparePrompt(p, max_prompt_chars)
      cached == CacheGet(CacheKey(prepared), now)
  IN  /\ engine = "up"
      /\ pc[c] = "idle"
      /\ LockFreeFor(cache_lock, c)
      /\ cache_lock' = LockReleased(cache_lock, c)
      /\ Arrived(c - 1)
      /\ Truthy(cached)
      /\ prompt' = [prompt EXCEPT ![c] = prepared]
      /\ cache' = CacheAfterGet(CacheKey(prepared), now)
      /\ result' = [result EXCEPT ![c] = cached]
      /\ pc' = [pc EXCEPT ![c] = "done"]
      /\ UNCHANGED <<limiter_lock, diskVars, promptVars, cacheHist, confVars, clockVars, limVars, semaphore, est, wakeAt, err,
                     attempt, calls, outcome, storedAt, admissions>>

\* generate_script, lines 208-221: no usable value, the cost is estimated
GenerateMiss(c, p) ==
  LET prepared == PreparePrompt(p, max_prompt_chars)
      cached == CacheGet(CacheKey(prepared), now)
  IN  /\ engine = "up"
      /\ pc[c] = "idle"
      /\ LockFreeFor(cache_lock, c)
      /\ cache_lock' = LockReleased(cache_lock, c)
      /\ Arrived(c - 1)
      /\ ~Truthy(cached)
      /\ prompt' = [prompt EXCEPT ![c] = prepared]
      /\ cache' = CacheAfterGet(CacheKey(prepared), now)
      /\ \E w \in PersistOutcomes(GetPersists(CacheKey(prepared), now)) :
           /\ lastWrite' = IF w = "none" THEN lastWrite ELSE w
           /\ \E f \in DiskAfterPersist(w, CacheAfterGet(CacheKey(prepared), now)) :
                disk' = f
           /\ IF PersistRaises(w)
              THEN /\ pc' = [pc EXCEPT ![c] = "failed"]
                   /\ err' = [err EXCEPT ![c] = "persist"]
                   /\ UNCHANGED <<limiter_lock, est, attempt>>
              ELSE /\ est' = [est EXCEPT ![c] = EstimateTokens(prepared, max_tokens)]
                   /\ attempt' = [attempt EXCEPT ![c] = 0]
                   /\ pc' = [pc EXCEPT ![c] = "acquire"]
                   /\ err' = err
      /\ UNCHANGED <<lockVars, disk_path, engine, promptVars, cacheHist, confVars, clockVars, limVars,
                     semaphore, wakeAt, result, calls, outcome, storedAt, admissions>>

\* generate_script, line 225: the remote call is issued
RemoteStart(c) ==
  /\ pc[c] = "admitted"
  /\ calls' = [calls EXCEPT ![c] = @ + 1]
  /\ pc' = [pc EXCEPT ![c] = "inflight"]
  /\ UNCHANGED <<lockVars, diskVars, promptVars, cacheHist, confVars, clockVars, limVars, semaphore, cache, est, wakeAt, err,
                 prompt, attempt, result, outcome, storedAt, admissions>>

RemoteSuccessMutant(c, text) ==
  /\ pc[c] = "inflight"
  /\ LockFreeFor(cache_lock, c)
  /\ cache_lock' = LockReleased(cache_lock, c)
  /\ outcome' = [outcome EXCEPT ![c] = "ok"]
  /\ cache' = CacheSet(CacheKey(prompt[c]), text, now)
  /\ storedAt' = [storedAt EXCEPT ![c] = now]
  /\ \E w \in PersistOutcomes(TRUE) :
       /\ lastWrite' = IF w = "none" THEN lastWrite ELSE w
       /\ \E f \in DiskAfterPersist(w, CacheSet(CacheKey(prompt[c]), text, now)) :
            disk' = f
       /\ IF PersistRaises(w)
          THEN /\ pc' = [pc EXCEPT ![c] = "failed"]
               /\ err' = [err EXCEPT ![c] = "persist"]
               /\ result' = result
          ELSE /\ result' = [result EXCEPT ![c] = Some(Strip(text))]
               /\ pc' = [pc EXCEPT ![c] = "done"]
               /\ err' = err
  /\ semaphore' = semaphore + 1
  /\ UNCHANGED <<limiter_lock, disk_path, engine, promptVars, cacheHist, confVars, clockVars, limVars, est,
                 wakeAt, prompt, attempt, calls, admissions>>

\* generate_script, lines 231-233: the remote call returns a text
RemoteSuccess(c, text) ==
  /\ pc[c] = "inflight"
  /\ LockFreeFor(cache_lock, c)
  /\ cache_lock' = LockReleased(cache_lock, c)
  /\ outcome' = [outcome EXCEPT ![c] = "ok"]
  /\ cache' = CacheSet(CacheKey(prompt[c]), Strip(text), now)
  /\ storedAt' = [storedAt EXCEPT ![c] = now]
  /\ \E w \in PersistOutcomes(TRUE) :
       /\ lastWrite' = IF w = "none" THEN lastWrite ELSE w
       /\ \E f \in DiskAfterPersist(w, CacheSet(CacheKey(prompt[c]), Strip(text), now)) :
            disk' = f
       /\ IF PersistRaises(w)
          THEN /\ pc' = [pc EXCEPT ![c] = "failed"]
               /\ err' = [err EXCEPT ![c] = "persist"]
               /\ result' = result
          ELSE /\ result' = [result EXCEPT ![c] = Some(Strip(text))]
               /\ pc' = [pc EXCEPT ![c] = "done"]
               /\ err' = err
  /\ semaphore' = semaphore + 1
  /\ UNCHANGED <<limiter_lock, disk_path, engine, promptVars, cacheHist, confVars, clockVars, limVars, est,
                 wakeAt, prompt, attempt, calls, admissions>>

RetriesExhaustedMutant(a, limit) == a >= limit

\* generate_script, lines 234-239: throttled, the retry budget is used up
RetriesExhausted(a, limit) == a > limit

RemoteThrottledExhaustedMutant(c) ==
  /\ pc[c] = "inflight"
  /\ c \notin cache_lock
  /\ RetriesExhausted(attempt[c] + 1, max_retries)
  /\ outcome' = [outcome EXCEPT ![c] = "throttled"]
  /\ attempt' = [attempt EXCEPT ![c] = @ + 1]
  /\ err' = [err EXCEPT ![c] = "exhausted"]
  /\ pc' = [pc EXCEPT ![c] = "failed"]
  /\ UNCHANGED <<lockVars, diskVars, promptVars, cacheHist, confVars, clockVars, limVars, semaphore,
                 cache, est, wakeAt, prompt, result, calls, storedAt, admissions>>

RemoteThrottledExhausted(c) ==
  /\ pc[c] = "inflight"
  /\ c \notin cache_lock
  /\ RetriesExhausted(attempt[c] + 1, max_retries)
  /\ outcome' = [outcome EXCEPT ![c] = "throttled"]
  /\ attempt' = [attempt EXCEPT ![c] = @ + 1]
  /\ semaphore' = semaphore + 1
  /\ err' = [err EXCEPT ![c] = "exhausted"]
  /\ pc' = [pc EXCEPT ![c] = "failed"]
  /\ UNCHANGED <<lockVars, diskVars, promptVars, cacheHist, confVars, clockVars, limVars, cache, est, wakeAt, prompt, result,
                 calls, storedAt, admissions>>

\* generate_script, lines 240-254: throttled, the caller sleeps (inside the
\* with statement) before the next attempt
RemoteThrottledBackoff(c, h) ==
  /\ pc[c] = "inflight"
  /\ c \notin cache_lock
  /\ ~RetriesExhausted(attempt[c] + 1, max_retries)
  /\ HasHint(h) => IsNumeral(h.text)
  /\ outcome' = [outcome EXCEPT ![c] = "throttled"]
  /\ attempt' = [attempt EXCEPT ![c] = @ + 1]
  /\ \E jitter \in Jitters(attempt[c] + 1) :
       wakeAt' = [wakeAt EXCEPT ![c] =
                    now + CeilDiv(RetryWait2(h, attempt[c] + 1, jitter), 2)]
  /\ pc' = [pc EXCEPT ![c] = "backoff"]
  /\ UNCHANGED <<lockVars, diskVars, promptVars, cacheHist, confVars, clockVars, limVars, semaphore, cache, est, err, prompt,
                 result, calls, storedAt, admissions>>

\* generate_script, line 244: float(retry_after) raises ValueError
RemoteThrottledBadHint(c, h) ==
  /\ pc[c] = "inflight"
  /\ c \notin cache_lock
  /\ ~RetriesExhausted(attempt[c] + 1, max_retries)
  /\ HasHint(h) /\ ~IsNumeral(h.text)
  /\ outcome' = [outcome EXCEPT ![c] = "throttled"]
  /\ attempt' = [attempt EXCEPT ![c] = @ + 1]
  /\ semaphore' = semaphore + 1
  /\ err' = [err EXCEPT ![c] = "hint"]
  /\ pc' = [pc EXCEPT ![c] = "failed"]
  /\ UNCHANGED <<lockVars, diskVars, promptVars, cacheHist, confVars, clockVars, limVars, cache, est, wakeAt, prompt, result,
                 calls, storedAt, admissions>>

RemoteConnFailMutant(c) ==
  /\ pc[c] = "inflight"
  /\ c \notin cache_lock
  /\ outcome' = [outcome EXCEPT ![c] = "network"]
  /\ attempt' = [attempt EXCEPT ![c] = @ + 1]
  /\ wakeAt' = [wakeAt EXCEPT ![c] = now + 1]
  /\ pc' = [pc EXCEPT ![c] = "backoff"]
  /\ UNCHANGED <<lockVars, diskVars, promptVars, cacheHist, confVars, clockVars, limVars, semaphore, cache, est, err,
                 prompt, result, calls, storedAt, admissions>>

\* generate_script, lines 255-258: connectivity failure or timeout
RemoteConnFail(c) ==
  /\ pc[c] = "inflight"
  /\ c \notin cache_lock
  /\ outcome' = [outcome EXCEPT ![c] = "network"]
  /\ semaphore' = semaphore + 1
  /\ err' = [err EXCEPT ![c] = "network"]
  /\ pc' = [pc EXCEPT ![c] = "failed"]
  /\ UNCHANGED <<lockVars, diskVars, promptVars, cacheHist, confVars, clockVars, limVars, cache, est, wakeAt, prompt, attempt,
                 result, calls, storedAt, admissions>>

BackoffWakeMutant(c) ==
  /\ pc[c] = "backoff"
  /\ now >= wakeAt[c]
  /\ wakeAt' = [wakeAt EXCEPT ![c] = 0]
  /\ pc' = [pc EXCEPT ![c] = "admitted"]
  /\ UNCHANGED <<lockVars, diskVars, promptVars, cacheHist, confVars, clockVars, limVars, semaphore, cache, est, err, engVars,
                 admissions>>

\* generate_script, line 254 and back to line 222: the sleep ends, the with
\* statement is left (the slot is released) and the loop starts again
BackoffWake(c) ==
  /\ pc[c] = "backoff"
  /\ now >= wakeAt[c]
  /\ wakeAt' = [wakeAt EXCEPT ![c] = 0]
  /\ semaphore' = semaphore + 1
  /\ pc' = [pc EXCEPT ![c] = "acquire"]
  /\ UNCHANGED <<lockVars, diskVars, promptVars, cacheHist, confVars, clockVars, limVars, cache, est, err, engVars, admissions>>

\* configuration of the engine
EngineRpmChoices == {2}
EngineTpmChoices == {5}
EngineRpdChoices == {0, 1}
EngineMaxTokensChoices == {1, 4}
MaxRetriesChoices == {-1, 0, 1}
CacheTtlChoices == {60}
MaxPromptCharsChoices == {2000}

\* LLMEngine.__init__
InitEngine ==
  /\ InitClock
  /\ \E m \in EngineMaxTokensChoices : max_tokens = m
  /\ \E m \in MaxPromptCharsChoices : max_prompt_chars = m
  /\ \E r \in MaxRetriesChoices : max_retries = r
  /\ \E ttl \in CacheTtlChoices : InitCache(ttl)
  /\ \E r \in EngineRpmChoices, t \in EngineTpmChoices, d \in EngineRpdChoices,
        k \in ConcurrencyChoices : InitLimiter(r, t, d, k)
  /\ InitCallers

Init == InitEngine

Next ==
  \/ \E d \in Deltas : Tick(d)
  \/ \E d \in Deltas : Midnight(d)
  \/ \E c \in EngineCallers : \E p \in Prompts : GenerateHit(c, p)
  \/ \E c \in EngineCallers : \E p \in Prompts : GenerateMiss(c, p)
  \/ \E c \in EngineCallers : AcquireReject(c)
  \/ \E c \in EngineCallers : AcquireSlot(c)
  \/ \E c \in EngineCallers : QuotaDaily(c)
  \/ \E c \in EngineCallers : QuotaAdmit(c)
  \/ \E c \in EngineCallers : QuotaWait(c)
  \/ \E c \in EngineCallers : QuotaWake(c)
  \/ \E c \in EngineCallers : RemoteStart(c)
  \/ \E c \in EngineCallers : \E text \in Texts : RemoteSuccess(c, text)
  \/ \E c \in EngineCallers : RemoteThrottledExhausted(c)
  \/ \E c \in EngineCallers : \E h \in RetryAfterChoices : RemoteThrottledBackoff(c, h)
  \/ \E c \in EngineCallers : \E h \in RetryAfterChoices : RemoteThrottledBadHint(c, h)
  \/ \E c \in EngineCallers : RemoteConnFail(c)
  \/ \E c \in EngineCallers : BackoffWake(c)

Spec == Init /\ [][Next]_vars

\* ------------------------------- the engine with a remote call that always
\* reports throttling
NextThrottled ==
  \/ \E d \in Deltas : Tick(d)
  \/ \E d \in Deltas : Midnight(d)
  \/ \E c \in EngineCallers : \E p \in Prompts : GenerateMiss(c, p)
  \/ \E c \in EngineCallers : AcquireReject(c)
  \/ \E c \in EngineCallers : AcquireSlot(c)
  \/ \E c \in EngineCallers : QuotaDaily(c)
  \/ \E c \in EngineCallers : QuotaAdmit(c)
  \/ \E c \in EngineCallers : QuotaWait(c)
  \/ \E c \in EngineCallers : QuotaWake(c)
  \/ \E c \in EngineCallers : RemoteStart(c)
  \/ \E c \in EngineCallers : RemoteThrottledExhausted(c)
  \/ \E c \in EngineCallers : \E h \in RetryAfterChoices : RemoteThrottledBackoff(c, h)
  \/ \E c \in EngineCallers : \E h \in RetryAfterChoices : RemoteThrottledBadHint(c, h)
  \/ \E c \in EngineCallers : BackoffWake(c)

SpecThrottled == Init /\ [][NextThrottled]_vars

\* ---------------------------------------------------- the cache on its own
TtlChoices == {0, 30, 60}

CachePut(key, value) ==
  /\ disk_path = NoPath
  /\ cache' = CacheSet(key, value, now)
  /\ lastPut' = [lastPut EXCEPT ![key] = [t |-> now, value |-> value]]
  /\ lastGet' = NoLookup
  /\ UNCHANGED <<lockVars, diskVars, promptVars, confVars, clockVars, limVars, semaphore, callerVars, engVars,
                 admissions>>

CacheLookup(key) ==
  /\ disk_path = NoPath
  /\ cache' = CacheAfterGet(key, now)
  /\ lastGet' = [key |-> key, t |-> now, value |-> CacheGet(key, now)]
  /\ UNCHANGED <<lockVars, diskVars, promptVars, confVars, clockVars, limVars, semaphore, callerVars, engVars,
                 admissions, lastPut>>

InitC ==
  /\ InitClock
  /\ max_tokens = 256
  /\ max_prompt_chars = 2000
  /\ max_retries = 6
  /\ \E ttl \in TtlChoices : InitCache(ttl)
  /\ InitLimiter(3, 1000, 0, 1)
  /\ InitCallers

NextC ==
  \/ \E d \in Deltas : Tick(d)
  \/ \E k \in Keys : \E v \in Values : CachePut(k, v)
  \/ \E k \in Keys : CacheLookup(k)

SpecCache == InitC /\ [][NextC]_vars

\* ------------------------- the engine with the locks taken step by step
\* ResponseCache.get, line 78, and ResponseCache.set, line 89: the caller enters
\* "with self._lock:" of the cache, at the lookup that opens generate_script
\* or at the store that follows the return of the remote call
CacheLockAcquire(c) ==
  /\ engine = "up"
  /\ \/ pc[c] = "idle" /\ Arrived(c - 1)
     \/ pc[c] = "inflight"
  /\ cache_lock = {}
  /\ cache_lock' = {c}
  /\ UNCHANGED <<limiter_lock, diskVars, promptVars, cacheHist, cache, confVars, clockVars,
                 limVars, semaphore, callerVars, engVars, admissions>>

\* RateLimiter.acquire, line 131: the caller enters "with self._lock:" of the
\* limiter at the top of the quota loop
LimiterLockAcquire(c) ==
  /\ pc[c] = "quota"
  /\ limiter_lock = {}
  /\ limiter_lock' = {c}
  /\ UNCHANGED <<cache_lock, diskVars, promptVars, cacheHist, cache, confVars, clockVars,
                 limVars, semaphore, callerVars, engVars, admissions>>

InitLocks ==
  /\ InitClock
  /\ \E m \in EngineMaxTokensChoices : max_tokens = m
  /\ \E m \in MaxPromptCharsChoices : max_prompt_chars = m
  /\ max_retries = 1
  /\ \E ttl \in CacheTtlChoices : InitCache(ttl)
  /\ \E r \in EngineRpmChoices, t \in EngineTpmChoices, d \in EngineRpdChoices :
       InitLimiter(r, t, d, 2)
  /\ InitCallers

NextLocks ==
  \/ \E c \in EngineCallers : CacheLockAcquire(c)
  \/ \E c \in EngineCallers : LimiterLockAcquire(c)
  \/ Next

SpecLocks == InitLocks /\ [][NextLocks]_vars

\* ------------------------- the engine with a clock that never stops
\* The clock advances past the horizon MaxTime.  The code uses the clock only
\* through differences (now - last_refill, expires_at - now, the end of a
\* sleep - now), so the advance is written as a move of the origin: now keeps
\* its value and every instant kept in the state moves back by d.  An instant
\* that lies a minute or more before now refills a bucket to its limit like
\* one that lies a minute before, and a deadline or expiry at or before 0 has
\* passed like one at 0, so the instants are kept within these limits.  The
\* history variables are not maintained past the horizon.
TickShift(d) ==
  /\ now + d > MaxTime
  /\ last_refill' = Max2(last_refill - d, now - Minute)
  /\ wakeAt' = [c \in Callers |-> Max2(0, wakeAt[c] - d)]
  /\ cache' = [k \in DOMAIN cache |->
                 [expires_at |-> Max2(0, cache[k].expires_at - d), value |-> cache[k].value]]
  /\ UNCHANGED <<lockVars, diskVars, promptVars, cacheHist, confVars, clockVars,
                 request_tokens, token_tokens, day, daily_requests, semaphore, pc, est, err,
                 engVars, admissions>>

\* every caller asks for the same prompt and the remote call returns one text
LivePrompts == {<<"a">>}
LiveTexts == {<<"a", " ">>}

\* the steps of the call of the caller c once it is past the cache lookup
CallerStep(c) ==
  \/ AcquireSlot(c)
  \/ QuotaDaily(c)
  \/ QuotaAdmit(c)
  \/ QuotaWait(c)
  \/ QuotaWake(c)
  \/ RemoteStart(c)
  \/ \E text \in LiveTexts : RemoteSuccess(c, text)
  \/ RemoteThrottledExhausted(c)
  \/ \E h \in RetryAfterChoices : RemoteThrottledBackoff(c, h)
  \/ \E h \in RetryAfterChoices : RemoteThrottledBadHint(c, h)
  \/ RemoteConnFail(c)
  \/ BackoffWake(c)

InitLive ==
  /\ InitClock
  /\ max_tokens = 1
  /\ \E m \in MaxPromptCharsChoices : max_prompt_chars = m
  /\ max_retries = 1
  /\ \E ttl \in CacheTtlChoices : InitCache(ttl)
  /\ \E r \in {1}, t \in EngineTpmChoices, d \in EngineRpdChoices :
       InitLimiter(r, t, d, 1)
  /\ InitCallers

NextLive ==
  \/ \E d \in Deltas : Tick(d)
  \/ \E d \in Deltas : TickShift(d)
  \/ \E c \in EngineCallers : \E p \in LivePrompts : GenerateHit(c, p)
  \/ \E c \in EngineCallers : \E p \in LivePrompts : GenerateMiss(c, p)
  \/ \E c \in EngineCallers : CallerStep(c)

\* the clock keeps advancing, every thread that can take a step takes one and
\* every remote call returns
Fairness ==
  /\ WF_vars(\E d \in Deltas : Tick(d) \/ TickShift(d))
  /\ \A c \in EngineCallers : WF_vars(CallerStep(c))

SpecLive == InitLive /\ [][NextLive]_vars /\ Fairness

\* ------------------------------------- the engine with a cache file
\* maps a cache file may hold when the engine starts
SnapshotMaps ==
  {NoEntries}
  \cup {[k \in {<<"a">>} |-> [expires_at |-> e, value |-> <<"a">>]] : e \in {0, 30}}
  \cup {[k \in Keys |-> [expires_at |-> IF k = <<"a">> THEN 30 ELSE 60, value |-> <<"a">>]]}

\* contents of the cache file when the engine starts
DiskChoices ==
  {MissingFile, UnreadableFile, BinaryFile, EmptyFile,
   JsonFile(JArray),
   JsonFile(JObject([k \in {<<"a">>} |-> JNumber(1)])),
   JsonFile(JObject([k \in {<<"a">>} |->
     JObject([n \in {"expires_at"} |-> JString(<<"a">>)])])),
   JsonFile(JObject([k \in {<<"a">>} |-> JObject(NoMembers)]))}
  \cup {Dump(m) : m \in SnapshotMaps}

\* ResponseCache.__init__, lines 49-50, and _load_disk_cache
LoadDiskCache ==
  /\ engine = "new"
  /\ disk_path # NoPath
  /\ IF LoadRaises(disk) # "none" /\ ~LoadCaught(LoadRaises(disk))
     THEN engine' = "crashed" /\ cache' = cache
     ELSE engine' = "up" /\ cache' = LoadedEntries(disk, now)
  /\ UNCHANGED <<lockVars, disk_path, disk, lastWrite, promptVars, cacheHist, confVars, clockVars,
                 limVars, semaphore, callerVars, engVars, admissions>>

InitPersist ==
  /\ InitClock
  /\ max_tokens = 256
  /\ max_prompt_chars = 2000
  /\ max_retries = 0
  /\ cache_ttl = 30
  /\ cache = NoEntries
  /\ disk_path = "cache.json"
  /\ \E f \in DiskChoices : disk = f
  /\ engine = "new"
  /\ lastWrite = "none"
  /\ InitLimiter(3, 1000, 0, 1)
  /\ InitCallers

NextPersist ==
  \/ LoadDiskCache
  \/ \E d \in Deltas : Tick(d)
  \/ \E c \in EngineCallers : \E p \in Prompts : GenerateHit(c, p)
  \/ \E c \in EngineCallers : \E p \in Prompts : GenerateMiss(c, p)
  \/ \E c \in EngineCallers : AcquireSlot(c)
  \/ \E c \in EngineCallers : QuotaAdmit(c)
  \/ \E c \in EngineCallers : RemoteStart(c)
  \/ \E c \in EngineCallers : \E text \in Texts : RemoteSuccess(c, text)
  \/ \E c \in EngineCallers : RemoteThrottledExhausted(c)

SpecPersist == InitPersist /\ [][NextPersist]_vars

\* ------------------------------------------- _prepare_prompt on its own
PromptChars == {"a", "b"}
RawPrompts == UNION {[1..n -> PromptChars] : n \in 0..MaxPromptLen}

PreparePromptCall ==
  /\ ~prepared_prompt.some
  /\ prepared_prompt' = Some(PreparePrompt(raw_prompt, max_prompt_chars))
  /\ UNCHANGED <<lockVars, diskVars, confVars, clockVars, limVars, semaphore, cache, callerVars, engVars,
                 admissions, cacheHist, raw_prompt>>

InitP ==
  /\ InitClock
  /\ max_tokens = 256
  /\ \E m \in 0..MaxPromptChars : max_prompt_chars = m
  /\ max_retries = 6
  /\ InitCache(3600)
  /\ InitLimiter(3, 1000, 0, 1)
  /\ pc = [c \in Callers |-> "idle"]
  /\ est = [c \in Callers |-> 0]
  /\ wakeAt = [c \in Callers |-> 0]
  /\ err = [c \in Callers |-> "none"]
  /\ prompt = [c \in Callers |-> <<>>]
  /\ attempt = [c \in Callers |-> 0]
  /\ result = [c \in Callers |-> None]
  /\ calls = [c \in Callers |-> 0]
  /\ outcome = [c \in Callers |-> "none"]
  /\ storedAt = [c \in Callers |-> -1]
  /\ admissions = <<>>
  /\ lastPut = [k \in Keys |-> [t |-> -1, value |-> <<>>]]
  /\ lastGet = NoLookup
  /\ \E p \in RawPrompts : raw_prompt = p
  /\ prepared_prompt = None
  /\ cache_lock = {}
  /\ limiter_lock = {}

NextP == PreparePromptCall

SpecPrompt == InitP /\ [][NextP]_vars

\* ================================================================= claims
Terminal == {"done", "failed"}
Holding == {"quota", "qsleep", "admitted", "inflight", "backoff"}

\* admissions inside the 60-second window that ends at the instant t
WindowAdmissions(t) ==
  {i \in DOMAIN admissions : admissions[i].t > t - Minute /\ admissions[i].t <= t}

RECURSIVE SumUnits(_)
SumUnits(S) ==
  IF S = {} THEN 0
  ELSE LET i == CHOOSE x \in S : TRUE
       IN  admissions[i].units + SumUnits(S \ {i})

\* C1: in every 60-second window that ends at an admission, the number of
\* admissions is at most requests_per_minute and the units admitted sum to at
\* most units_per_minute.
C1_QuotaWindow ==
  \A j \in DOMAIN admissions :
    /\ Cardinality(WindowAdmissions(admissions[j].t)) <= rpm_limit
    /\ SumUnits(WindowAdmissions(admissions[j].t)) <= tpm_limit

\* C2: with more callers than slots, at most max_concurrency callers are inside
\* the remote call at any instant.
C2_ConcurrencyBound ==
  Cardinality({c \in Callers : pc[c] = "inflight"}) <= concurrency

C2_Witness ==
  /\ Cardinality({c \in Callers : pc[c] = "inflight"}) = concurrency
  /\ \E c \in Callers : pc[c] = "acquire" /\ est[c] <= tpm_limit

AdmittedOn(d) == Cardinality({i \in DOMAIN admissions : admissions[i].day = d})

\* C3: with a daily cap D > 0, no day has more than D admissions; a quota check
\* made when the current day already has D admissions fails with the daily
\* error (it neither admits nor waits) and one made when the day has fewer does
\* not fail; every quota check leaves the counter equal to the number of
\* admissions of the current day, which is 0 right after the day has changed.
C3_DailyCap ==
  /\ [](rpd_limit > 0 => \A d \in 0..MaxDay : AdmittedOn(d) <= rpd_limit)
  /\ [][\A c \in Callers :
          (rpd_limit > 0 /\ pc[c] = "quota" /\ pc'[c] # "quota") =>
            /\ IF AdmittedOn(today) >= rpd_limit
               THEN pc'[c] = "failed" /\ err'[c] = "daily" /\ admissions' = admissions
               ELSE pc'[c] \in {"admitted", "qsleep"}
            /\ day' = today
            /\ daily_requests' = Cardinality({i \in DOMAIN admissions' :
                                                admissions'[i].day = today})]_vars

C3_Witness ==
  /\ rpd_limit > 0
  /\ today = 1
  /\ \E c \in Callers : err[c] = "daily"
  /\ AdmittedOn(0) = rpd_limit
  /\ AdmittedOn(1) = rpd_limit
  /\ daily_requests = rpd_limit

\* C4: a generate() call that begins after another call for the same prompt has
\* returned the text of its single remote call, within the TTL of that text and
\* with no third call around, returns at once with the same text and issues no
\* remote call.
C4_IdempotentCache ==
  [][\A c1, c2 \in EngineCallers :
       ( /\ c1 # c2
         /\ pc[c1] = "done" /\ storedAt[c1] >= 0 /\ calls[c1] = 1
         /\ \A c3 \in Callers \ {c1, c2} : pc[c3] = "idle"
         /\ pc[c2] = "idle" /\ pc'[c2] # "idle"
         /\ prompt'[c2] = prompt[c1]
         /\ now < storedAt[c1] + cache_ttl )
       => (pc'[c2] = "done" /\ result'[c2] = result[c1] /\ calls'[c2] = 0)]_vars

\* C5 as stated: with a remote call that always throttles, every generate()
\* that fails has made exactly max_retries + 1 remote calls and fails with the
\* retry-exhausted error.
C5_ExactlyRPlusOne ==
  \A c \in EngineCallers :
    pc[c] = "failed" => (calls[c] = max_retries + 1 /\ err[c] = "exhausted")

\* C5: with a remote call that always throttles, generate() makes at most
\* max(R, 0) + 1 remote calls; it fails with the retry-exhausted error exactly
\* when it has made that many; a call that fails with fewer failed with a quota
\* error or on a Retry-After hint that is not a usable sleep duration.
C5_RetryBound ==
  \A c \in EngineCallers :
    /\ calls[c] <= Max2(max_retries, 0) + 1
    /\ pc[c] = "failed" =>
         /\ err[c] = "exhausted" <=> calls[c] = Max2(max_retries, 0) + 1
         /\ err[c] \in {"exhausted", "unsatisfiable", "daily", "hint"}

C5_Witness ==
  \E c \in EngineCallers :
    /\ max_retries = 1
    /\ pc[c] = "failed" /\ err[c] = "exhausted"
    /\ calls[c] = 2

\* C6: a connectivity failure ends the call at once: the caller is failed with
\* the network error in the very step that reports it, the attempt counter and
\* the sleep deadline are untouched, and the caller issues no remote call and
\* takes no step afterwards.
C6_ConnFailTerminal ==
  /\ [](\A c \in EngineCallers :
          outcome[c] = "network" => (pc[c] = "failed" /\ err[c] = "network"))
  /\ [][\A c \in EngineCallers :
          (outcome'[c] = "network" /\ pc[c] = "inflight") =>
            /\ pc'[c] = "failed"
            /\ attempt'[c] = attempt[c]
            /\ wakeAt'[c] = wakeAt[c]
            /\ calls'[c] = calls[c]]_vars
  /\ [][\A c \in EngineCallers :
          outcome[c] = "network" =>
            (calls'[c] = calls[c] /\ attempt'[c] = attempt[c] /\ pc'[c] = pc[c])]_vars

C6_Witness ==
  \E c \in EngineCallers :
    /\ outcome[c] = "network"
    /\ attempt[c] = 1
    /\ calls[c] = 2

\* C7: a lookup made at or after T + ttl, T the instant of the last put of the
\* key, reports the key absent; a lookup made before T + ttl returns the value
\* of that put.
C7_TtlExpiry ==
  (lastGet.t >= 0 /\ lastPut[lastGet.key].t >= 0) =>
    LET put == lastPut[lastGet.key]
    IN  /\ lastGet.t >= put.t + cache_ttl => lastGet.value = None
        /\ lastGet.t < put.t + cache_ttl => lastGet.value = Some(put.value)

C7_Witness ==
  /\ lastGet.t >= 0
  /\ lastPut[lastGet.key].t >= 0
  /\ cache_ttl > 0
  /\ lastGet.t = lastPut[lastGet.key].t + cache_ttl
  /\ lastGet.value = None

\* C8: acquire with more units than the per-minute unit limit fails in its
\* first step with the quota-unsatisfiable error and leaves the semaphore, both
\* buckets, the refill time, the daily counter, the admissions, the sleep
\* deadlines and the remote-call counts as they were; such a caller never holds
\* a slot and never issues a remote call.
C8_Unsatisfiable ==
  /\ [](\A c \in Callers :
          /\ pc[c] \in Holding => est[c] <= tpm_limit
          /\ err[c] = "unsatisfiable" => (pc[c] = "failed" /\ calls[c] = 0))
  /\ [][\A c \in Callers :
          (pc[c] = "acquire" /\ est[c] > tpm_limit /\ pc'[c] # "acquire") =>
            /\ pc'[c] = "failed" /\ err'[c] = "unsatisfiable"
            /\ UNCHANGED <<semaphore, limVars, admissions, wakeAt, calls, cache>>]_vars

C8_Witness ==
  \E c, c2 \in EngineCallers :
    /\ err[c] = "unsatisfiable"
    /\ pc[c2] = "inflight"

\* C9: both buckets stay between 0 and their limit.
C9_BucketRange ==
  /\ 0 <= request_tokens /\ request_tokens <= Minute * rpm_limit
  /\ 0 <= token_tokens /\ token_tokens <= Minute * tpm_limit

\* C10: free slots plus callers holding a slot equal the concurrency limit; a
\* caller that has returned or failed holds none, so with no call in progress
\* every slot is free.
C10_SlotsReleased ==
  /\ semaphore + Cardinality({c \in Callers : pc[c] \in Holding}) = concurrency
  /\ (\A c \in Callers : pc[c] \in Terminal \cup {"idle"}) => semaphore = concurrency

C10_Witness ==
  /\ \A c \in EngineCallers : pc[c] \in Terminal
  /\ \E c \in EngineCallers : err[c] = "daily"
  /\ \E c \in EngineCallers : pc[c] = "done"
  /\ semaphore = concurrency

\* C13: admissions never outrun the request bucket: any run of n admissions
\* that starts at instant s and ends at instant t satisfies
\* n <= requests_per_minute + requests_per_minute * (t - s) / 60, so with a
\* limit of 1 a first call is admitted at once and the next admission comes
\* no earlier than 60 seconds after it.
C13_RefillGate ==
  \A i, j \in DOMAIN admissions :
    i < j =>
      Minute * (j - i + 1) <=
        Minute * rpm_limit + rpm_limit * (admissions[j].t - admissions[i].t)

C13_Witness ==
  /\ rpm_limit = 1
  /\ Len(admissions) = 2
  /\ admissions[1].t = 0
  /\ admissions[2].t = Minute
  /\ \E c \in Callers : pc[c] = "admitted"

RECURSIVE TotalCalls(_)
TotalCalls(S) ==
  IF S = {} THEN 0
  ELSE LET c == CHOOSE x \in S : TRUE
       IN  calls[c] + TotalCalls(S \ {c})

\* C14: every remote invocation, first attempt or retry, is issued by a caller
\* that has just been admitted, and each admission debited one request token,
\* the estimated units and one daily count; every admission is used by at most
\* one invocation, so invocations never exceed admissions.
C14_FreshAdmission ==
  /\ [](TotalCalls(Callers) + Cardinality({c \in Callers : pc[c] = "admitted"})
          = Len(admissions))
  /\ [][\A c \in Callers :
          calls'[c] # calls[c] =>
            (calls'[c] = calls[c] + 1 /\ pc[c] = "admitted" /\ pc'[c] = "inflight")]_vars
  /\ [][\A c \in Callers :
          (pc'[c] = "admitted" /\ pc[c] # "admitted") =>
            /\ pc[c] = "quota"
            /\ admissions' = Append(admissions,
                                    [t |-> now, units |-> est[c], day |-> today])
            /\ request_tokens' = RefillRequests(now) - Minute
            /\ token_tokens' = RefillTokens(now) - Minute * est[c]
            /\ daily_requests' = DailyAfterReset + 1]_vars

C14_Witness ==
  \E c \in EngineCallers :
    /\ calls[c] = 2
    /\ attempt[c] = 1
    /\ pc[c] = "inflight"
    /\ Len(admissions) >= 2

\* C15: a caller holds a slot only from just before its quota check until its
\* remote call returns or fails: the free slots plus the callers between the
\* quota check and the end of the remote call equal the concurrency limit, so
\* a caller asleep in retry backoff holds no slot.
C15_NoSlotInBackoff ==
  semaphore
    + Cardinality({c \in Callers : pc[c] \in {"quota", "qsleep", "admitted", "inflight"}})
    = concurrency

\* the entries of the map ch that a lookup at the instant t would still serve
LiveEntries(ch, t) ==
  [k \in {x \in DOMAIN ch : ch[x].expires_at > t} |-> ch[k]]

\* C16: the live cache entries change only in the step in which a remote call
\* succeeds, and then only at the key of that call; the step that ends a call
\* in failure leaves the live entries as they were; a cache hit issues no
\* remote call and leaves both buckets, the daily counter, the admissions and
\* the free slots as they were.
C16_CacheFrame ==
  /\ [][LiveEntries(cache', now') # LiveEntries(cache, now') =>
          \E c \in Callers :
            /\ pc[c] = "inflight" /\ pc'[c] = "done" /\ outcome'[c] = "ok"
            /\ \A k \in Keys \ {CacheKey(prompt[c])} :
                 /\ k \in DOMAIN cache' <=> k \in DOMAIN cache
                 /\ k \in DOMAIN cache => cache'[k] = cache[k]]_vars
  /\ [][\A c \in Callers :
          (pc'[c] = "failed" /\ pc[c] # "failed") =>
            LiveEntries(cache', now') = LiveEntries(cache, now')]_vars
  /\ [][\A c \in Callers :
          (pc[c] = "idle" /\ pc'[c] = "done") =>
            /\ result'[c] = CacheGet(CacheKey(prompt'[c]), now)
            /\ UNCHANGED <<limVars, semaphore, calls, admissions>>]_vars

C16_Witness ==
  \E c, c2 \in EngineCallers :
    /\ outcome[c] = "ok"
    /\ pc[c2] = "failed" /\ err[c2] = "exhausted"
    /\ storedAt[c] >= 0
    /\ DOMAIN LiveEntries(cache, now) # {}

\* a step in which some caller leaves the quota check
QuotaStepOf(c) == pc[c] = "quota" /\ pc'[c] # "quota"

\* C19 as stated: an attempt that is not refused by the daily cap and finds at
\* least one request token and the needed units debits exactly those and adds 1 to the daily counter; an
\* attempt that finds either bucket short changes neither bucket beyond the
\* refill and leaves the daily counter as it was.
C19_AllOrNothing ==
  [][\A c \in Callers :
      (QuotaStepOf(c) /\ pc'[c] # "failed") =>
        IF Sufficient(RefillRequests(now), RefillTokens(now), est[c])
        THEN /\ request_tokens' = RefillRequests(now) - Minute
             /\ token_tokens' = RefillTokens(now) - Minute * est[c]
             /\ daily_requests' = daily_requests + 1
        ELSE /\ request_tokens' = RefillRequests(now)
             /\ token_tokens' = RefillTokens(now)
             /\ daily_requests' = daily_requests]_vars

\* C19, amended: the daily counter is counted from its value after the day
\* check (0 when the calendar day has changed), and an attempt refused by the
\* daily cap debits nothing; otherwise the attempt debits both buckets and
\* counts one request, or debits and counts nothing.
C19_AllOrNothingAfterDayCheck ==
  [][\A c \in Callers :
      QuotaStepOf(c) =>
        IF DailyCapReached(rpd_limit, DailyAfterReset)
        THEN /\ pc'[c] = "failed"
             /\ UNCHANGED <<request_tokens, token_tokens, last_refill>>
             /\ daily_requests' = DailyAfterReset
        ELSE IF Sufficient(RefillRequests(now), RefillTokens(now), est[c])
        THEN /\ pc'[c] = "admitted"
             /\ request_tokens' = RefillRequests(now) - Minute
             /\ token_tokens' = RefillTokens(now) - Minute * est[c]
             /\ daily_requests' = DailyAfterReset + 1
        ELSE /\ pc'[c] = "qsleep"
             /\ request_tokens' = RefillRequests(now)
             /\ token_tokens' = RefillTokens(now)
             /\ daily_requests' = DailyAfterReset]_vars

C19_Witness ==
  /\ today = 1 /\ day = 1
  /\ daily_requests = 0
  /\ \E c \in Callers : pc[c] = "qsleep"
  /\ \E i \in DOMAIN admissions : admissions[i].day = 0

\* C20: for every limit M >= 0, a prompt of at most M characters is returned
\* unchanged; a longer one is returned as a head slice, the elision marker and
\* a tail slice, the two slices together holding at most M characters, so the
\* prepared prompt is never longer than M plus the length of the marker.
C20_PreparedPrompt ==
  prepared_prompt.some =>
    LET p == raw_prompt
        M == max_prompt_chars
        out == prepared_prompt.value
    IN  /\ Len(p) <= M => out = p
        /\ Len(p) > M =>
             \E h, t \in 0..Len(p) :
               /\ h + t <= M
               /\ out = SubSeq(p, 1, h) \o Marker \o SubSeq(p, Len(p) - t + 1, Len(p))
        /\ Len(out) <= M + Len(Marker)

\* C11: constructing the cache with a cache file never fails, whatever the file
\* holds, and a file that is not a map of records gives an empty cache.
C11_ConstructionNeverFails ==
  /\ engine # "crashed"
  /\ (engine = "up" /\ (\A c \in Callers : pc[c] = "idle")
        /\ (\A m \in SnapshotMaps : disk # Dump(m))) => cache = NoEntries

\* C12: a failed write of the cache file never reaches the caller: no call ends
\* with a storage error; a remote success whose write fails still stores the
\* entry in memory and returns the text; a lookup whose write fails still
\* gives the in-memory answer and the call goes on.
C12_WriteFailureHidden ==
  /\ [](\A c \in Callers : err[c] # "persist")
  /\ [][\A c \in Callers :
          (pc[c] = "inflight" /\ outcome'[c] = "ok" /\ lastWrite' = "OSError") =>
            /\ pc'[c] = "done"
            /\ result'[c].some
            /\ CacheKey(prompt[c]) \in DOMAIN cache'
            /\ cache'[CacheKey(prompt[c])] =
                 [expires_at |-> now + cache_ttl, value |-> result'[c].value]]_vars
  /\ [][\A c \in Callers :
          (pc[c] = "idle" /\ pc'[c] # "idle" /\ lastWrite' = "OSError") =>
            /\ pc'[c] \in {"acquire", "done"}
            /\ pc'[c] = "done" => result'[c] = CacheGet(CacheKey(prompt'[c]), now)
            /\ pc'[c] = "acquire" => ~Truthy(CacheGet(CacheKey(prompt'[c]), now))]_vars

C12_Witness ==
  /\ lastWrite = "OSError"
  /\ disk # Dump(cache)
  /\ \E c \in EngineCallers :
       /\ pc[c] = "done" /\ outcome[c] = "ok"
       /\ result[c] = Some(<<"a">>)
       /\ CacheKey(prompt[c]) \in DOMAIN cache

\* C18: after a put or an evicting get whose write succeeds, the cache file
\* holds exactly the entries of the map in memory; a cache constructed from a
\* snapshot holds exactly the entries of the snapshot that expire later than
\* the instant of the load.
C18_SnapshotMatches ==
  /\ [](lastWrite = "ok" => disk = Dump(cache))
  /\ [][(engine = "new" /\ engine' = "up") =>
          \A m \in SnapshotMaps :
            disk = Dump(m) =>
              cache' = [k \in {x \in DOMAIN m : m[x].expires_at > now} |-> m[k]]]_vars

C18_Witness ==
  /\ lastWrite = "ok"
  /\ Cardinality(DOMAIN cache) = 2
  /\ \E c \in EngineCallers : outcome[c] = "ok" /\ storedAt[c] = 30
  /\ \E k \in DOMAIN cache : cache[k].expires_at = 60 /\ now = 30

\* C17: no caller is inside the cache's lock and the limiter's lock at once;
\* each lock holds at most one caller; a caller inside either lock is not
\* asleep (neither waiting for quota nor in retry backoff); a caller inside the
\* limiter's lock is at its quota check, not in the remote call; a caller
\* inside the cache's lock is at the lookup that opens its call or at the
\* store that follows the return of its remote call.
C17_LockDiscipline ==
  /\ cache_lock \cap limiter_lock = {}
  /\ Cardinality(cache_lock) <= 1
  /\ Cardinality(limiter_lock) <= 1
  /\ \A c \in cache_lock \cup limiter_lock : pc[c] \notin {"qsleep", "backoff"}
  /\ \A c \in limiter_lock : pc[c] = "quota"
  /\ \A c \in cache_lock : pc[c] \in {"idle", "inflight"}

C17_Witness ==
  \E c, c2 \in EngineCallers :
    /\ cache_lock = {c} /\ pc[c] = "inflight"
    /\ limiter_lock = {c2} /\ pc[c2] = "quota"
    /\ attempt[c2] = 1

\* C21: a put of a key leaves the map with an entry for that key that holds the
\* new value and expires at now + ttl, whether or not the key had an entry, live
\* or expired; the keys of the map are the old ones and the key put, and the
\* entries under the other keys are as they were.
C21_PutOverwrites ==
  [][\A key \in Keys :
      lastPut'[key] # lastPut[key] =>
        /\ DOMAIN cache' = DOMAIN cache \cup {key}
        /\ cache'[key] = [expires_at |-> now + cache_ttl, value |-> lastPut'[key].value]
        /\ \A k \in DOMAIN cache \ {key} : cache'[k] = cache[k]]_vars

C21_Witness ==
  \E key, k \in Keys :
    /\ key # k
    /\ cache_ttl = 30
    /\ now = 60
    /\ lastPut[key] = [t |-> 60, value |-> <<"a">>]
    /\ lastPut[k].t = 0
    /\ DOMAIN cache = {key, k}
    /\ cache[key] = [expires_at |-> 90, value |-> <<"a">>]
    /\ cache[k].expires_at = 30

\* the waits, in whole seconds of sleep, that attempt a may take: a numeric
\* retry hint, or a value between base * 2^(a-1) and 2 * base * 2^(a-1)
HintWaits == {ParseNumeral(h.text) : h \in {x \in RetryAfterChoices : IsNumeral(x.text)}}
BackoffWaits(a) == {CeilDiv(w, 2) : w \in BackoffBase2(a)..(2 * BackoffBase2(a))}

\* C22: a throttled attempt a within the retry budget puts the caller to sleep
\* for the retry hint when the response carries one, whatever the hint, and
\* otherwise for a wait between base * 2^(a-1) and 2 * base * 2^(a-1), and the
\* caller then goes on to the next attempt: it never fails at this point.
C22_BackoffWait ==
  [][\A c \in EngineCallers :
      (pc[c] = "inflight" /\ attempt'[c] = attempt[c] + 1
         /\ attempt[c] + 1 <= max_retries) =>
        /\ pc'[c] = "backoff"
        /\ err'[c] = "none"
        /\ wakeAt'[c] - now \in HintWaits \cup BackoffWaits(attempt'[c])]_vars

\* C23: two calls for the same key can both miss and both issue the remote
\* call before any result is cached, also with a single slot; whatever the
\* order, the map holds at most the one entry of a key, and that entry is the
\* result of one of the calls that succeeded for the key, expiring ttl after
\* that call stored it; when two such calls have succeeded the entry is
\* missing only once it has expired.
C23_OneOfTheResults ==
  /\ \A k \in DOMAIN cache :
       \E c \in Callers :
         /\ outcome[c] = "ok" /\ CacheKey(prompt[c]) = k
         /\ cache[k] = [expires_at |-> storedAt[c] + cache_ttl, value |-> result[c].value]
  /\ \A c1, c2 \in Callers :
       (c1 # c2 /\ outcome[c1] = "ok" /\ outcome[c2] = "ok" /\ prompt[c1] = prompt[c2]
          /\ CacheKey(prompt[c1]) \notin DOMAIN cache) =>
         now >= storedAt[c1] + cache_ttl

C23_Witness ==
  \E c1, c2 \in EngineCallers :
    /\ c1 # c2
    /\ concurrency = 1
    /\ prompt[c1] = prompt[c2] /\ prompt[c1] # <<>>
    /\ calls[c1] >= 1 /\ calls[c2] >= 1
    /\ pc[c2] = "inflight"
    /\ CacheKey(prompt[c1]) \notin DOMAIN cache
    /\ \A c \in Callers : outcome[c] # "ok"

\* C24: with units within the unit limit, a clock that keeps advancing, remote
\* calls that return and fair scheduling, every call that has been issued
\* ends, with a result or with a terminal error.
C24_EveryCallTerminates ==
  \A c \in EngineCallers : (pc[c] # "idle") ~> (pc[c] \in Terminal)

C24_Witness ==
  /\ concurrency = 1
  /\ \A c \in EngineCallers : pc[c] \in Terminal /\ est[c] <= tpm_limit
  /\ \E c \in EngineCallers : pc[c] = "done" /\ attempt[c] = 1 /\ calls[c] = 2
  /\ \E c \in EngineCallers : calls[c] >= 1 /\ storedAt[c] # 0
====
